---- MODULE Spec2Model ----
(***************************************************************************)
(* Sequential reveal orchestrator and progress animator of the landing     *)
(* page (src/app/page.tsx).                                                *)
(*                                                                         *)
(* Time is counted in ticks of 100ms (the greatest common divisor of every *)
(* timeout of the page).  setTimeout callbacks are kept in one list,       *)
(* `timers`, ordered by deadline and, for equal deadlines, by creation     *)
(* (the HTML timer rule); a callback runs when its remaining time is 0 and *)
(* time advances only when no callback is due.                             *)
(*                                                                         *)
(* An IntersectionObserver callback receives a batch of entries and        *)
(* handles them one after the other with entries.forEach; a batch is       *)
(* therefore a run of single-entry steps with no other step in between,    *)
(* and the model delivers one entry per step.                              *)
(***************************************************************************)
EXTENDS Integers, Sequences, FiniteSets, TLC

(* ------------------------------ bounds -------------------------------- *)

\* The reveal order is cut to the first NumElements revealable elements
\* of the page (headline, description, form, progress section, ...).
NumElements == 4

\* Signup submissions the user makes.
MaxSubmits == 1

\* Percentages are floating-point numbers; the model keeps this many
\* significant bits of them, counted in units of 1/128 percent.
SignificandBits == 7

(* ------------------------- program constants -------------------------- *)

MIN_TIME_BEFORE_TITLE_REVEAL == 1000
MOBILE_MAX_WIDTH == 768
MOBILE_TITLE_DELAY == 300
DESKTOP_TITLE_DELAY == 0
MOBILE_TITLE_MIN_SCROLL == 50
SCROLL_STARTED_MIN == 10
REGISTRATION_DELAY == 200
PROGRESS_VISIBLE_DELAY == 100
ANIMATION_START_DELAY == 200
DURATION_INCREMENT == 1500
DURATION_INITIAL == 3500
FRAME_UPDATE_INTERVAL == 6
INITIAL_GOAL == 5000
FALLBACK_COUNT == 4000
FALLBACK_TARGET == 80

Ticks(ms) == ms \div 100

Min(a, b) == IF a < b THEN a ELSE b

(* ------------------------- the page's markup -------------------------- *)

\* The nodes of the page's JSX that the reveal system looks at, in document
\* order (a section before the cards it contains): whether the node
\* carries data-reveal, its data-delay (0 when it has none, as parseInt
\* of '0' gives), and the position of the benefits section for its cards.
\* The headline's data-delay is set by checkMobile (see DataDelay).
DocumentNodes ==
  << [kind |-> "title",    reveal |-> TRUE,  delay |-> 0,    parent |-> 0],
     [kind |-> "standard", reveal |-> TRUE,  delay |-> 200,  parent |-> 0],
     [kind |-> "standard", reveal |-> TRUE,  delay |-> 400,  parent |-> 0],
     [kind |-> "progress", reveal |-> TRUE,  delay |-> 600,  parent |-> 0],
     [kind |-> "benefits", reveal |-> TRUE,  delay |-> 800,  parent |-> 0],
     [kind |-> "card",     reveal |-> FALSE, delay |-> 0,    parent |-> 5],
     [kind |-> "card",     reveal |-> FALSE, delay |-> 0,    parent |-> 5],
     [kind |-> "card",     reveal |-> FALSE, delay |-> 0,    parent |-> 5],
     [kind |-> "footer",   reveal |-> TRUE,  delay |-> 1400, parent |-> 0] >>

\* document.querySelector('.benefits-section[data-reveal]'): the position
\* of the first match, 0 for null.
BenefitsSectionWithReveal(doc) ==
  LET found == {i \in 1 .. Len(doc) : doc[i].kind = "benefits" /\ doc[i].reveal}
  IN  IF found = {} THEN 0 ELSE CHOOSE i \in found : \A j \in found : i <= j

\* The mobile conversion: the section loses data-reveal and data-delay,
\* each of its cards gets data-reveal and data-delay 800 + index * 200.
ConvertBenefits(doc) ==
  LET section == BenefitsSectionWithReveal(doc)
      IsCard(i) == doc[i].kind = "card" /\ doc[i].parent = section
      index(i) == Cardinality({j \in 1 .. (i - 1) : IsCard(j)})
  IN  IF section = 0 THEN doc
      ELSE [i \in 1 .. Len(doc) |->
              IF i = section THEN [doc[i] EXCEPT !.reveal = FALSE, !.delay = 0]
              ELSE IF IsCard(i)
                THEN [doc[i] EXCEPT !.reveal = TRUE, !.delay = 800 + index(i) * 200]
              ELSE doc[i]]

\* The document the registration callback leaves at a viewport width.
ConvertedAt(doc, width) == IF width <= MOBILE_MAX_WIDTH THEN ConvertBenefits(doc) ELSE doc

\* document.querySelectorAll('[data-reveal]'): the positions of the
\* matching nodes, returned in document order.
querySelectorAllReveal(doc) ==
  SelectSeq([i \in 1 .. Len(doc) |-> i], LAMBDA i : doc[i].reveal)

\* A list that is kept from one build to the next.
KeptRevealOrder(previous) == previous

\* const revealOrder = []: every run of the effect starts with a list of
\* its own.
FreshRevealOrder(previous) == <<>>

\* revealElements.forEach(... revealOrder.push(htmlElement) ...)
BuildRevealOrder(previous, doc) ==
  FreshRevealOrder(previous) \o querySelectorAllReveal(doc)

\* What the reveal system reads of the elements of a built order: a card
\* is handled as a standard element.
PageOf(doc) ==
  LET order == BuildRevealOrder(<<>>, doc)
  IN  [el \in 1 .. Len(order) |->
         [kind  |-> IF doc[order[el]].kind \in {"benefits", "card"}
                      THEN "standard" ELSE doc[order[el]].kind,
          delay |-> doc[order[el]].delay]]

\* The [data-reveal] elements in document order with their data-delay.
DesktopPage == PageOf(DocumentNodes)

\* The same list after the registration step has replaced the benefits
\* section by its three cards (delay 800 + index * 200).
MobilePage == PageOf(ConvertBenefits(DocumentNodes))

Elements == 1 .. NumElements

\* The element with id 'progress-section'.
ProgressSection == CHOOSE el \in 1 .. Len(DesktopPage) : DesktopPage[el].kind = "progress"

\* Viewport widths (one of each device class) and scroll offsets (one in
\* each range the gating rules tell apart, two above the 50px rule).
Widths == {375, 1280}
ScrollPositions == {0, 5, 40, 60, 80}

IsMobileWidth(w) == w <= MOBILE_MAX_WIDTH

VARIABLES
  innerWidth,        \* window.innerWidth
  scrollY,           \* window.scrollY
  scrollMove,        \* history: the direction of the last change of window.scrollY
  now,               \* ticks since pageLoadTime, capped at the 1000ms gate
  isCurrentlyMobile, \* const isCurrentlyMobile, read when the observers are made
  cardsConverted,    \* the registration step converted the benefits section
  revealOrder,       \* const revealOrder = []
  observedBy,        \* per element, the observer it was handed to
  mounted,           \* the page component is mounted
  inDocument,        \* the document holds the page's [data-reveal] elements
  document,          \* the page's nodes with their data-reveal and data-delay
  revealedElements,  \* const revealedElements = new Set()
  revealedClass,     \* elements carrying the 'revealed' class and the styles
  animationQueue,    \* const animationQueue = new Map(), in insertion order
  timers,            \* pending setTimeout callbacks, in firing order
  lastScrollY,       \* let lastScrollY
  scrollDirection,   \* let scrollDirection
  scrollStarted,     \* let scrollStarted
  revealLog,         \* history: the elements in the order they were marked 'revealed'
  lastEntry,         \* history: what the last step, if an observer entry, did
  progressVisible,   \* useState progressVisible
  progress,          \* useState progress, in units of 1/128 percent
  targetProgress,    \* useState targetProgress, in units of 1/128 percent
  count,             \* useState count
  goal,              \* useState goal
  animationStarted,  \* useState animationStarted
  isSubmitting,      \* useState isSubmitting: a signup POST is in flight
  submits,           \* submissions made so far
  posts,             \* the bodies of the page's signup POSTs in flight
  rendered,          \* the effect dependencies of the last render whose effects ran
  fetches,           \* GET requests in flight, by the animationStarted they captured
  runsStarted,       \* history: the number of animation runs started so far
  runs,              \* per run with a pending callback, the variables it closes over
  cleanupRun,        \* the run the last progress effect's cleanup cancels (0: none)
  rafPending,        \* runs with a requestAnimationFrame callback pending
  processEnv,        \* process.env of the server, as far as database.js reads it
  storageAdapter,    \* let storageAdapter of database.js ("null" before the first call)
  adapterReady,      \* the adapter's this.kv / this.fs / this.pool has been assigned
  stored,            \* the signups the storage holds: data/signups.json, the set or the table
  requests,          \* per HTTP request to /api/send, where it stands and what it holds
  adaptersCreated,   \* history: the number of calls of createStorageAdapter
  toast,             \* a toast that showToast made: its element and its closure
  toastTimers        \* the pending setTimeout callbacks of that toast, in firing order

envVars    == <<innerWidth, scrollY, scrollMove, now>>
mountVars  == <<isCurrentlyMobile, cardsConverted, revealOrder, observedBy, mounted,
                inDocument, document>>
revealVars == <<revealedElements, revealedClass, animationQueue, timers, revealLog>>
scrollVars == <<lastScrollY, scrollDirection, scrollStarted>>
dataVars   == <<progress, targetProgress, count, goal, animationStarted>>
formVars   == <<isSubmitting, submits, posts>>
animVars   == <<rendered, fetches, runsStarted, runs, cleanupRun, rafPending>>
reactVars  == <<progressVisible, dataVars, formVars, animVars>>

serverVars == <<processEnv, storageAdapter, adapterReady, stored, requests, adaptersCreated>>
toastVars  == <<toast, toastTimers>>
libVars    == <<serverVars, toastVars>>
pageVars   == <<envVars, mountVars, revealVars, scrollVars, reactVars, lastEntry>>

vars == <<pageVars, libVars>>

(* ------------------------------ helpers ------------------------------- *)

PageFor(converted) == IF converted THEN MobilePage ELSE DesktopPage

Page == PageFor(cardsConverted)

KindOf(el) == Page[el].kind

\* element.getAttribute('data-delay'): checkMobile rewrites the headline's
\* attribute at mount and on every resize.
DataDelay(el) ==
  IF KindOf(el) = "title"
    THEN IF IsMobileWidth(innerWidth) THEN MOBILE_TITLE_DELAY ELSE DESKTOP_TITLE_DELAY
    ELSE Page[el].delay

IndexOf(order, el) ==
  IF \E i \in 1 .. Len(order) : order[i] = el
    THEN CHOOSE i \in 1 .. Len(order) : order[i] = el
    ELSE 0

\* setTimeout: after every pending callback that is due no later.
InsertTimer(ts, t) ==
  LET k == Cardinality({j \in 1 .. Len(ts) : ts[j].rem <= t.rem})
  IN  SubSeq(ts, 1, k) \o <<t>> \o SubSeq(ts, k + 1, Len(ts))

InQueue(queue, el) == \E i \in 1 .. Len(queue) : queue[i].el = el

QueueDelete(queue, el) == SelectSeq(queue, LAMBDA q : q.el # el)

canRevealElement(order, revealed, el) ==
  LET currentIndex == IndexOf(order, el)
  IN  IF currentIndex = 0 THEN FALSE
      ELSE IF currentIndex = 1 THEN TRUE
      ELSE order[currentIndex - 1] \in revealed

\* processPendingAnimations: animationQueue.forEach in insertion order.
RECURSIVE ProcessLoop(_, _, _, _, _)
ProcessLoop(queue, i, order, revealed, ts) ==
  IF i > Len(queue) THEN [queue |-> queue, timers |-> ts]
  ELSE IF ~queue[i].canReveal /\ canRevealElement(order, revealed, queue[i].el)
    THEN ProcessLoop([queue EXCEPT ![i].canReveal = TRUE], i + 1, order, revealed,
                     InsertTimer(ts, [kind |-> "queued", el |-> queue[i].el,
                                      rem |-> Ticks(queue[i].delay)]))
    ELSE ProcessLoop(queue, i + 1, order, revealed, ts)

\* A reveal callback that returns without looking at the queue.
processPendingAnimationsSkipped(queue, order, revealed, ts) ==
  [queue |-> queue, timers |-> ts]

processPendingAnimations(queue, order, revealed, ts) ==
  ProcessLoop(queue, 1, order, revealed, ts)

(* ----------------- the server: storage and API route ------------------ *)

\* HTTP requests to /api/send that the server handles at once.
NumRequests == 2

Requests == 1 .. NumRequests

\* An email as a request body carries it: its text once trimmed and
\* lower-cased, whether it is written with upper-case letters and whether
\* blanks surround it.
RawEmails == [text : {"a@x.io", "b@x.io"}, upper : BOOLEAN, padded : BOOLEAN]

trim(email) == [email EXCEPT !.padded = FALSE]

toLowerCase(email) == [email EXCEPT !.upper = FALSE]

\* const normalizedEmail = (email || '').trim().toLowerCase()
Normalized(email) == toLowerCase(trim(email))

\* The variables of process.env that createStorageAdapter reads or the
\* documentation names, each set or not, and NODE_ENV === 'production'.
Environments ==
  [DATABASE_URL : BOOLEAN, KV_URL : BOOLEAN, KV_REST_API_URL : BOOLEAN,
   UPSTASH_REDIS_REST_URL : BOOLEAN, production : BOOLEAN]

\* The machine of a developer: nothing set, not production.
Development ==
  [DATABASE_URL |-> FALSE, KV_URL |-> FALSE, KV_REST_API_URL |-> FALSE,
   UPSTASH_REDIS_REST_URL |-> FALSE, production |-> FALSE]

createStorageAdapter(env) ==
  IF env.DATABASE_URL THEN "postgres"
  ELSE IF env.KV_REST_API_URL \/ env.UPSTASH_REDIS_REST_URL THEN "kv"
  ELSE IF ~env.production THEN "file"
  ELSE "env"

\* { emails: [], count: 0 }
NoSignups == [emails |-> <<>>, count |-> 0]

Includes(emails, email) == \E i \in 1 .. Len(emails) : emails[i] = email

\* data.emails.push(emailLower); data.count = data.emails.length
Pushed(data, email) ==
  [emails |-> Append(data.emails, email), count |-> Len(data.emails) + 1]

NoEmail == [text |-> "", upper |-> FALSE, padded |-> FALSE]

IdleRequest ==
  [pc |-> "idle", email |-> NoEmail, readsFile |-> FALSE, data |-> NoSignups,
   inserted |-> FALSE, status |-> 0, count |-> 0]

ServerIdle ==
  /\ storageAdapter = "null"
  /\ adapterReady = FALSE
  /\ stored = NoSignups
  /\ requests = [r \in Requests |-> IdleRequest]
  /\ adaptersCreated = 0

\* getStorageAdapter: the adapter is created at the first call.  The
\* constructors start initKV / initFS / initDB and do not wait for them;
\* the environment adapter has nothing to initialise.
getStorageAdapter ==
  /\ storageAdapter' = IF storageAdapter = "null"
                         THEN createStorageAdapter(processEnv) ELSE storageAdapter
  /\ adaptersCreated' = IF storageAdapter = "null"
                          THEN adaptersCreated + 1 ELSE adaptersCreated
  /\ adapterReady' = IF storageAdapter = "null"
                       THEN createStorageAdapter(processEnv) = "env" ELSE adapterReady

\* The dynamic import of an adapter's constructor has resolved: this.kv,
\* this.fs or this.pool is assigned.
AdapterInitDone ==
  /\ storageAdapter \in {"kv", "file", "postgres"}
  /\ ~adapterReady
  /\ adapterReady' = TRUE
  /\ UNCHANGED <<pageVars, toastVars, processEnv, storageAdapter, stored, requests,
                 adaptersCreated>>

\* GET /api/send: getProgress reads the count through the adapter.
Get ==
  /\ getStorageAdapter
  /\ UNCHANGED <<pageVars, toastVars, processEnv, stored, requests>>

\* The route answers: 409 when addSignup returned false.
Answered(req, status, signups) ==
  [req EXCEPT !.pc = "done", !.status = status, !.count = signups]

\* POST /api/send up to the first await of the adapter's addEmail: the
\* body is parsed and normalised, addSignup gets the adapter and calls
\* addEmail.  (A malformed address is answered 400 before that; every
\* address here is well formed.)
Post(r, email) ==
  /\ requests[r].pc = "idle"
  /\ getStorageAdapter
  /\ LET normalizedEmail == Normalized(email)
         req == [requests[r] EXCEPT !.email = normalizedEmail]
     IN  requests' = [requests EXCEPT ![r] =
           CASE storageAdapter' = "kv" ->
                  IF adapterReady' THEN [req EXCEPT !.pc = "kvAdd"]
                                   ELSE Answered(req, 409, 0)
             [] storageAdapter' = "file" ->
                  [req EXCEPT !.pc = "fileRead", !.readsFile = adapterReady']
             [] storageAdapter' = "postgres" -> [req EXCEPT !.pc = "pgInsert"]
             [] OTHER -> [req EXCEPT !.pc = "progress", !.inserted = TRUE]]
  /\ UNCHANGED <<pageVars, toastVars, processEnv, stored>>

PostReceived == \E r \in Requests, email \in RawEmails : Post(r, email)

\* FileAdapter.addEmail after readData has resolved: the duplicate check,
\* the push and the call of writeData, which gives up when this.fs is not
\* assigned yet.
FileRead(r) ==
  /\ requests[r].pc = "fileRead"
  /\ LET req == requests[r]
         data == IF req.readsFile THEN stored ELSE NoSignups
         emailLower == toLowerCase(req.email)
     IN  requests' = [requests EXCEPT ![r] =
           IF Includes(data.emails, emailLower) THEN Answered(req, 409, 0)
           ELSE IF ~adapterReady THEN Answered(req, 409, 0)
           ELSE [req EXCEPT !.pc = "fileWrite", !.data = Pushed(data, emailLower)]]
  /\ UNCHANGED <<pageVars, toastVars, processEnv, storageAdapter, adapterReady, stored,
                 adaptersCreated>>

\* fs.writeFile has replaced the file by the data of this call.
FileWrite(r) ==
  /\ requests[r].pc = "fileWrite"
  /\ stored' = requests[r].data
  /\ requests' = [requests EXCEPT ![r].pc = "progress", ![r].inserted = TRUE]
  /\ UNCHANGED <<pageVars, toastVars, processEnv, storageAdapter, adapterReady,
                 adaptersCreated>>

\* The set or the table takes the email unless it holds it.
Added(emails, email) ==
  IF Includes(emails, email) THEN [emails |-> emails, count |-> Len(emails)]
  ELSE [emails |-> Append(emails, email), count |-> Len(emails) + 1]

\* kv.sadd('emails', email.toLowerCase()): 1 when newly added.
KvAdd(r) ==
  /\ requests[r].pc = "kvAdd"
  /\ LET req == requests[r]
         emailLower == toLowerCase(req.email)
     IN  /\ stored' = Added(stored.emails, emailLower)
         /\ requests' = [requests EXCEPT ![r] =
              IF Includes(stored.emails, emailLower) THEN Answered(req, 409, 0)
              ELSE [req EXCEPT !.pc = "progress", !.inserted = TRUE]]
  /\ UNCHANGED <<pageVars, toastVars, processEnv, storageAdapter, adapterReady,
                 adaptersCreated>>

\* await this.ready, then INSERT INTO signups: the unique constraint
\* rejects a second row with code 23505, which the route answers 409.
PgInsert(r) ==
  /\ requests[r].pc = "pgInsert"
  /\ adapterReady
  /\ LET req == requests[r]
         emailLower == toLowerCase(req.email)
     IN  /\ stored' = Added(stored.emails, emailLower)
         /\ requests' = [requests EXCEPT ![r] =
              IF Includes(stored.emails, emailLower) THEN Answered(req, 409, 0)
              ELSE [req EXCEPT !.pc = "progress", !.inserted = TRUE]]
  /\ UNCHANGED <<pageVars, toastVars, processEnv, storageAdapter, adapterReady,
                 adaptersCreated>>

\* adapter.getCount(): the count of the file, the set or the table; the
\* environment adapter answers SIGNUP_COUNT, which is not set.
getCount ==
  IF storageAdapter = "env" \/ ~adapterReady THEN 0 ELSE stored.count

\* getProgress has read the count; the route answers 200 with it.
ReadProgress(r) ==
  /\ requests[r].pc = "progress"
  /\ requests' = [requests EXCEPT ![r] = Answered(requests[r], 200, getCount)]
  /\ UNCHANGED <<pageVars, toastVars, processEnv, storageAdapter, adapterReady, stored,
                 adaptersCreated>>

FileReadDone == \E r \in Requests : FileRead(r)

FileWriteDone == \E r \in Requests : FileWrite(r)

KvAddDone == \E r \in Requests : KvAdd(r)

PgInsertDone == \E r \in Requests : PgInsert(r)

ProgressRead == \E r \in Requests : ReadProgress(r)

(* ------------------------------ toasts -------------------------------- *)

\* const DURATION = 6000
DURATION == 6000

\* setTimeout(close, 1500) of resume
RESUME_DELAY == 1500

\* setTimeout(() => toast.remove(), 260) of close
REMOVE_DELAY == 260

\* DURATION + 3000 of the hard safety timeout
SAFETY_EXTRA == 3000

\* Mouse events and clicks that a toast receives.
MaxToastEvents == 3

\* Mouse events and clicks arrive when a timer is due or at a multiple of
\* this many milliseconds after showToast.
ToastStep == 500

\* No toast: showToast has not been called.  Of a toast, `age' is the time
\* in milliseconds since showToast, `show' and `hide' are its classes,
\* `listening' says that pause and resume are its mouse listeners,
\* `hideTimer' is the handle the closure holds (0 for undefined),
\* `timersSet' counts its setTimeout calls and hands out the handles,
\* `events' counts the events it received, and `closedBy' records the first
\* caller of close.
IdleToast ==
  [shown |-> FALSE, inBody |-> FALSE, show |-> FALSE, hide |-> FALSE,
   listening |-> FALSE, framePending |-> FALSE, hideTimer |-> 0, timersSet |-> 0,
   age |-> 0, events |-> 0, closedBy |-> "none"]

NoToast ==
  /\ toast = IdleToast
  /\ toastTimers = <<>>

clearTimeout(ts, id) == SelectSeq(ts, LAMBDA t : t.id # id)

\* setTimeout(callback, delay) by the toast t: a callback of the given kind.
setTimeout(t, kind, delay) == [kind |-> kind, due |-> t.age + delay, id |-> t.timersSet + 1]

\* pause: if (hideTimer) clearTimeout(hideTimer)
pause(t, ts) ==
  [toast |-> t,
   timers |-> IF t.hideTimer # 0 THEN clearTimeout(ts, t.hideTimer) ELSE ts]

\* resume: hideTimer = setTimeout(close, 1500)
resume(t, ts) ==
  [toast |-> [t EXCEPT !.hideTimer = t.timersSet + 1, !.timersSet = @ + 1],
   timers |-> Append(ts, setTimeout(t, "hide", RESUME_DELAY))]

\* close: the mouse listeners are removed, the hide timer is cleared, the
\* class show gives way to hide and the removal is set 260 ms ahead.
close(t, ts, by) ==
  [toast |-> [t EXCEPT !.listening = FALSE, !.show = FALSE, !.hide = TRUE,
                       !.timersSet = @ + 1,
                       !.closedBy = IF @ = "none" THEN by ELSE @],
   timers |-> Append(IF t.hideTimer # 0 THEN clearTimeout(ts, t.hideTimer) ELSE ts,
                     setTimeout(t, "remove", REMOVE_DELAY))]

\* The hard safety callback doing nothing.
hardSafetySkipped(t, ts) == [toast |-> t, timers |-> ts]

\* if (document.body.contains(toast)) close()
hardSafety(t, ts) ==
  IF t.inBody THEN close(t, ts, "safety") ELSE [toast |-> t, timers |-> ts]

\* showToast: the element is appended to the body, the frame callback is
\* requested, the hide timer and the hard safety timer are set and the
\* mouse listeners added.
ShowToast ==
  /\ ~toast.shown
  /\ toast' = [IdleToast EXCEPT !.shown = TRUE, !.inBody = TRUE, !.listening = TRUE,
                                !.framePending = TRUE, !.hideTimer = 1, !.timersSet = 2]
  /\ toastTimers' = <<[kind |-> "hide", due |-> DURATION, id |-> 1],
                      [kind |-> "safety", due |-> DURATION + SAFETY_EXTRA, id |-> 2]>>
  /\ UNCHANGED <<pageVars, serverVars>>

\* requestAnimationFrame(() => toast.classList.add('show') ...)
ToastFrame ==
  /\ toast.framePending
  /\ toast' = [toast EXCEPT !.framePending = FALSE, !.show = TRUE]
  /\ UNCHANGED <<pageVars, serverVars, toastTimers>>

\* The toast is in the document and can take one more event.
CanReceive == toast.inBody /\ toast.events < MaxToastEvents

Received(r) ==
  /\ toast' = [r.toast EXCEPT !.events = @ + 1]
  /\ toastTimers' = r.timers
  /\ UNCHANGED <<pageVars, serverVars>>

\* mouseenter on the toast while pause is its listener.
MouseEnter ==
  /\ CanReceive
  /\ toast.listening
  /\ Received(pause(toast, toastTimers))

\* mouseleave on the toast while resume is its listener.
MouseLeave ==
  /\ CanReceive
  /\ toast.listening
  /\ Received(resume(toast, toastTimers))

\* click on the close button, whose listener is never removed.
CloseClick ==
  /\ CanReceive
  /\ Received(close(toast, toastTimers, "click"))

\* The timer at position i is due and none is due before it.
Due(i) ==
  /\ toastTimers[i].due <= toast.age
  /\ \A j \in 1 .. Len(toastTimers) : toastTimers[j].due >= toastTimers[i].due

Without(ts, i) == SubSeq(ts, 1, i - 1) \o SubSeq(ts, i + 1, Len(ts))

\* The due timer at position i is of this kind.
DueOf(kind, i) == Due(i) /\ toastTimers[i].kind = kind

Fired(r) ==
  /\ toast' = r.toast
  /\ toastTimers' = r.timers
  /\ UNCHANGED <<pageVars, serverVars>>

\* A hide timer, set by showToast or by resume, fires: close.
HideTimeout ==
  \E i \in 1 .. Len(toastTimers) :
    /\ DueOf("hide", i)
    /\ Fired(close(toast, Without(toastTimers, i), "timer"))

\* The hard safety timer fires.
SafetyTimeout ==
  \E i \in 1 .. Len(toastTimers) :
    /\ DueOf("safety", i)
    /\ Fired(hardSafety(toast, Without(toastTimers, i)))

\* A removal timer fires: toast.remove().
RemoveTimeout ==
  \E i \in 1 .. Len(toastTimers) :
    /\ DueOf("remove", i)
    /\ Fired([toast |-> [toast EXCEPT !.inBody = FALSE],
              timers |-> Without(toastTimers, i)])

RECURSIVE EarliestDue(_)
EarliestDue(ts) ==
  IF Len(ts) = 1 THEN ts[1].due ELSE Min(ts[1].due, EarliestDue(Tail(ts)))

\* Time passes up to the next timer or the next moment an event can arrive.
ToastTimePasses ==
  /\ toastTimers # <<>>
  /\ \A i \in 1 .. Len(toastTimers) : toastTimers[i].due > toast.age
  /\ toast' = [toast EXCEPT !.age = Min(EarliestDue(toastTimers),
                                        ((toast.age \div ToastStep) + 1) * ToastStep)]
  /\ UNCHANGED <<pageVars, serverVars, toastTimers>>

\* The server and the toasts as the page's specifications hold them: no
\* request and no toast.
LibInit ==
  /\ processEnv = Development
  /\ ServerIdle
  /\ NoToast

(* ------------------------------- Init --------------------------------- *)

NoEntry == [outcome |-> "none", el |-> 0]

\* The component's first render and its mount effects: the progress data
\* is being fetched, the progress effect returned at its first guard.
ReactInit ==
  /\ progressVisible = FALSE
  /\ progress = 0
  /\ targetProgress = 0
  /\ count = 0
  /\ goal = INITIAL_GOAL
  /\ animationStarted = FALSE
  /\ isSubmitting = FALSE
  /\ submits = 0
  /\ posts = <<>>
  /\ rendered = [target |-> 0, visible |-> FALSE, started |-> FALSE]
  /\ fetches = [captured \in BOOLEAN |-> IF captured THEN 0 ELSE 1]
  /\ runsStarted = 0
  /\ runs = <<>>
  /\ cleanupRun = 0
  /\ rafPending = {}

PageInit ==
  /\ innerWidth \in Widths
  /\ scrollY = 0
  /\ scrollMove = "none"
  /\ now = 0
  /\ isCurrentlyMobile = IsMobileWidth(innerWidth)
  /\ cardsConverted = FALSE
  /\ revealOrder = <<>>
  /\ observedBy = [el \in Elements |-> "none"]
  /\ mounted = TRUE
  /\ inDocument = TRUE
  /\ document = DocumentNodes
  /\ revealedElements = {}
  /\ revealedClass = {}
  /\ animationQueue = <<>>
  /\ timers = <<[kind |-> "register", el |-> 0, rem |-> Ticks(REGISTRATION_DELAY)]>>
  /\ lastScrollY = 0
  /\ scrollDirection = "down"
  /\ scrollStarted = FALSE
  /\ revealLog = <<>>
  /\ lastEntry = NoEntry
  /\ ReactInit

Init == PageInit /\ LibInit

(* ------------------------- the environment ---------------------------- *)

FetchDepsChanged == animationStarted # rendered.started

AnimDepsChanged ==
  targetProgress # rendered.target \/ progressVisible # rendered.visible

\* React runs the effects of a render before it handles the next state
\* update: a step that sets React state waits for RunEffects.
EffectsFlushed == ~FetchDepsChanged /\ ~AnimDepsChanged

\* The window is resized across the 768px breakpoint (checkMobile runs and
\* rewrites the headline's data-delay, which DataDelay reads).
Resize ==
  /\ innerWidth' \in Widths \ {innerWidth}
  /\ lastEntry' = NoEntry
  /\ UNCHANGED <<libVars, scrollY, scrollMove, now, mountVars, revealVars, scrollVars, reactVars>>

\* The user (or the page) scrolls.
Scroll ==
  /\ scrollY' \in ScrollPositions \ {scrollY}
  /\ scrollMove' = (IF scrollY' > scrollY THEN "down" ELSE "up")
  /\ lastEntry' = NoEntry
  /\ UNCHANGED <<libVars, innerWidth, now, mountVars, revealVars, scrollVars, reactVars>>

\* performance.now() - pageLoadTime is read by the desktop headline gate
\* alone, and only an entry for a headline that has not triggered yet
\* depends on it.  The model counts the time while such an entry is still
\* possible and up to the gate's 1000ms; later the value is never read.
ClockIsRead ==
  \/ revealOrder = <<>>
  \/ \E el \in Elements : /\ observedBy[el] = "standard"
                          /\ KindOf(el) = "title"
                          /\ el \notin revealedElements

\* 100ms pass; no callback is due.
Tick ==
  /\ EffectsFlushed
  /\ (IF timers = <<>> THEN TRUE ELSE timers[1].rem > 0)
  /\ now' = IF ClockIsRead THEN Min(now + 1, Ticks(MIN_TIME_BEFORE_TITLE_REVEAL)) ELSE now
  /\ timers' = [i \in 1 .. Len(timers) |-> [timers[i] EXCEPT !.rem = @ - 1]]
  /\ lastEntry' = NoEntry
  /\ UNCHANGED <<libVars, innerWidth, scrollY, scrollMove, mountVars, revealedElements, revealedClass,
                 animationQueue, revealLog, scrollVars, reactVars>>

(* ------------------------- registration step -------------------------- *)

\* The observer the registration step hands an element to.
ObserverFor(kind, width, mobileObserverExists) ==
  IF kind = "footer" THEN "footer"
  ELSE IF IsMobileWidth(width) /\ kind = "title"
    THEN IF mobileObserverExists THEN "mobileTitle" ELSE "none"
  ELSE "standard"

\* setTimeout(() => { ... }, 200): convert the benefits section on mobile,
\* build revealOrder in document order, hand every element to an observer.
\* The timeout is never cleared and the callback does not ask whether the
\* page is still mounted: it registers whatever elements
\* document.querySelectorAll('[data-reveal]') finds, and observe() on a
\* disconnected observer starts it again.
RegistrationTimeout ==
  /\ timers # <<>>
  /\ timers[1].kind = "register" /\ timers[1].rem = 0
  /\ IF inDocument
       THEN /\ document' = ConvertedAt(document, innerWidth)
            /\ cardsConverted' = IsMobileWidth(innerWidth)
            /\ revealOrder' = [i \in 1 .. Min(NumElements, Len(PageFor(cardsConverted'))) |-> i]
            /\ observedBy' = [el \in Elements |->
                                IF el <= Len(revealOrder')
                                  THEN ObserverFor(PageFor(cardsConverted')[el].kind,
                                                   innerWidth, isCurrentlyMobile)
                                  ELSE "none"]
       ELSE UNCHANGED <<document, cardsConverted, revealOrder, observedBy>>
  /\ timers' = Tail(timers)
  /\ lastEntry' = NoEntry
  /\ UNCHANGED <<libVars, envVars, isCurrentlyMobile, mounted, inDocument, revealedElements, revealedClass,
                 animationQueue, revealLog, scrollVars, reactVars>>

(* ----------------------- handleElementIntersection -------------------- *)

\* Triggers without the look-up in revealedElements.
TriggersIgnoringRevealed(el, isIntersecting) ==
  isIntersecting /\ ~InQueue(animationQueue, el)

\* Triggers without the test of isIntersecting.
TriggersOnAnyEntry(el, isIntersecting) ==
  el \notin revealedElements /\ ~InQueue(animationQueue, el)

Triggers(el, isIntersecting) ==
  /\ isIntersecting
  /\ el \notin revealedElements
  /\ ~InQueue(animationQueue, el)

\* handleElementIntersection with the immediate path's setTimeout called
\* without its delay.
handleElementIntersectionWithoutDelay(el, isIntersecting) ==
  IF Triggers(el, isIntersecting)
    THEN IF canRevealElement(revealOrder, revealedElements, el)
      THEN /\ revealedElements' = revealedElements \cup {el}
           /\ timers' = InsertTimer(timers, [kind |-> "immediate", el |-> el, rem |-> 0])
           /\ UNCHANGED <<revealedClass, animationQueue, revealLog>>
      ELSE /\ animationQueue' = Append(animationQueue,
                                  [el |-> el, delay |-> DataDelay(el), canReveal |-> FALSE])
           /\ UNCHANGED <<revealedElements, revealedClass, timers, revealLog>>
    ELSE UNCHANGED revealVars

handleElementIntersection(el, isIntersecting) ==
  IF Triggers(el, isIntersecting)
    THEN IF canRevealElement(revealOrder, revealedElements, el)
      THEN /\ revealedElements' = revealedElements \cup {el}
           /\ timers' = InsertTimer(timers, [kind |-> "immediate", el |-> el,
                                             rem |-> Ticks(DataDelay(el))])
           /\ UNCHANGED <<revealedClass, animationQueue, revealLog>>
      ELSE /\ animationQueue' = Append(animationQueue,
                                  [el |-> el, delay |-> DataDelay(el), canReveal |-> FALSE])
           /\ UNCHANGED <<revealedElements, revealedClass, timers, revealLog>>
    ELSE UNCHANGED revealVars

\* The branch handleElementIntersection takes (its TRIGGER / IMMEDIATE /
\* QUEUED console lines).
HandleOutcome(el, isIntersecting) ==
  IF Triggers(el, isIntersecting)
    THEN IF canRevealElement(revealOrder, revealedElements, el)
           THEN "immediate" ELSE "queued"
    ELSE "noTrigger"

\* History of the last step: the branch an intersecting entry took, or
\* that the entry was not intersecting.
Entry(outcome, el, isIntersecting) ==
  IF isIntersecting THEN [outcome |-> outcome, el |-> el]
  ELSE [outcome |-> "notIntersecting", el |-> el]

(* --------------------------- the observers ---------------------------- *)

\* The desktop gate with the two conditions joined by "and".
DesktopTitleBlockedBoth(isIntersecting) ==
  (scrollY = 0 /\ now < Ticks(MIN_TIME_BEFORE_TITLE_REVEAL)) /\ isIntersecting

\* The desktop gate with "<=" in the time comparison.
DesktopTitleBlockedInclusive(isIntersecting) ==
  (scrollY = 0 \/ now <= Ticks(MIN_TIME_BEFORE_TITLE_REVEAL)) /\ isIntersecting

\* The desktop headline is dropped at scroll offset 0 and during the first
\* second after load.
DesktopTitleBlocked(isIntersecting) ==
  LET isInitialPageLoad == scrollY = 0
      isTooSoonAfterPageLoad == now < Ticks(MIN_TIME_BEFORE_TITLE_REVEAL)
  IN  (isInitialPageLoad \/ isTooSoonAfterPageLoad) /\ isIntersecting

\* One entry of the standard observer's callback.
StandardEntry(el, isIntersecting) ==
  /\ observedBy[el] = "standard"
  /\ IF el \in revealedClass
       THEN /\ lastEntry' = Entry("skipped", el, isIntersecting)
            /\ UNCHANGED revealVars
     ELSE IF KindOf(el) = "title" /\ ~IsMobileWidth(innerWidth)
             /\ DesktopTitleBlocked(isIntersecting)
       THEN /\ lastEntry' = Entry("blocked", el, isIntersecting)
            /\ UNCHANGED revealVars
     ELSE /\ lastEntry' = Entry(HandleOutcome(el, isIntersecting), el, isIntersecting)
          /\ handleElementIntersection(el, isIntersecting)
  /\ UNCHANGED <<libVars, envVars, mountVars, scrollVars, reactVars>>

StandardObserverEntry == \E el \in Elements, b \in BOOLEAN : StandardEntry(el, b)

NextScrollDirection ==
  IF scrollY > lastScrollY THEN "down"
  ELSE IF scrollY < lastScrollY THEN "up"
  ELSE scrollDirection

NextScrollStarted ==
  scrollStarted \/ (scrollY > lastScrollY /\ scrollY > SCROLL_STARTED_MIN)

\* The mobile condition without the scroll direction.
MobileTitleAllowedAnyDirection(isIntersecting, started, direction) ==
  isIntersecting /\ scrollY > MOBILE_TITLE_MIN_SCROLL /\ started

MobileTitleAllowed(isIntersecting, started, direction) ==
  /\ isIntersecting
  /\ scrollY > MOBILE_TITLE_MIN_SCROLL
  /\ started
  /\ direction = "down"

\* One entry of the mobile headline observer's callback.
MobileTitleEntry(el, isIntersecting) ==
  /\ observedBy[el] = "mobileTitle"
  /\ IF el \in revealedClass
       THEN /\ lastEntry' = Entry("skipped", el, isIntersecting)
            /\ UNCHANGED <<revealVars, scrollVars>>
       ELSE /\ scrollDirection' = NextScrollDirection
            /\ scrollStarted' = NextScrollStarted
            /\ lastScrollY' = scrollY
            /\ IF MobileTitleAllowed(isIntersecting, scrollStarted', scrollDirection')
                 THEN /\ lastEntry' = Entry(HandleOutcome(el, isIntersecting), el,
                                            isIntersecting)
                      /\ handleElementIntersection(el, isIntersecting)
                 ELSE /\ lastEntry' = Entry("blocked", el, isIntersecting)
                      /\ UNCHANGED revealVars
  /\ UNCHANGED <<libVars, envVars, mountVars, reactVars>>

MobileTitleObserverEntry == \E el \in Elements, b \in BOOLEAN : MobileTitleEntry(el, b)

\* One entry of the footer observer's callback.
FooterEntry(el, isIntersecting) ==
  /\ observedBy[el] = "footer"
  /\ IF el \in revealedClass
       THEN /\ lastEntry' = Entry("skipped", el, isIntersecting)
            /\ UNCHANGED revealVars
       ELSE /\ lastEntry' = Entry(HandleOutcome(el, isIntersecting), el, isIntersecting)
            /\ handleElementIntersection(el, isIntersecting)
  /\ UNCHANGED <<libVars, envVars, mountVars, scrollVars, reactVars>>

FooterObserverEntry == \E el \in Elements, b \in BOOLEAN : FooterEntry(el, b)

(* ------------------------- the reveal callbacks ----------------------- *)

\* The callback of the immediate path (lines 335-369).
ImmediateRevealTimeout ==
  /\ timers # <<>>
  /\ timers[1].kind = "immediate" /\ timers[1].rem = 0
  /\ LET el == timers[1].el
         rest == IF KindOf(el) = "progress"
                   THEN InsertTimer(Tail(timers),
                          [kind |-> "progressVisible", el |-> el,
                           rem |-> Ticks(PROGRESS_VISIBLE_DELAY)])
                   ELSE Tail(timers)
         out == processPendingAnimations(animationQueue, revealOrder,
                                         revealedElements, rest)
     IN  /\ revealedClass' = revealedClass \cup {el}
         /\ revealLog' = Append(revealLog, el)
         /\ animationQueue' = out.queue
         /\ timers' = out.timers
  /\ lastEntry' = NoEntry
  /\ UNCHANGED <<libVars, envVars, mountVars, revealedElements, scrollVars, reactVars>>

\* The callback of the queued path (lines 297-310).
QueuedRevealTimeout ==
  /\ timers # <<>>
  /\ timers[1].kind = "queued" /\ timers[1].rem = 0
  /\ LET el == timers[1].el
         out == processPendingAnimations(QueueDelete(animationQueue, el), revealOrder,
                                         revealedElements \cup {el}, Tail(timers))
     IN  /\ revealedClass' = revealedClass \cup {el}
         /\ revealLog' = Append(revealLog, el)
         /\ revealedElements' = revealedElements \cup {el}
         /\ animationQueue' = out.queue
         /\ timers' = out.timers
  /\ lastEntry' = NoEntry
  /\ UNCHANGED <<libVars, envVars, mountVars, scrollVars, reactVars>>

\* setTimeout(() => { setProgressVisible(true); }, 100).  React drops a
\* state update of a component that has unmounted.
ProgressVisibleTimeout ==
  /\ EffectsFlushed
  /\ timers # <<>>
  /\ timers[1].kind = "progressVisible" /\ timers[1].rem = 0
  /\ progressVisible' = (IF mounted THEN TRUE ELSE progressVisible)
  /\ timers' = Tail(timers)
  /\ lastEntry' = NoEntry
  /\ UNCHANGED <<libVars, envVars, mountVars, revealedElements, revealedClass,
                 animationQueue, revealLog, scrollVars, dataVars, formVars, animVars>>

(* ------------------------- the progress effects ----------------------- *)

\* A cleanup that clears the start timeout and leaves the frame request.
CancelRunTimeoutOnly(ts, raf, id) ==
  [timers |-> SelectSeq(ts, LAMBDA t : ~(t.kind = "animStart" /\ t.el = id)),
   raf |-> raf]

\* The effect's cleanup: clearTimeout(timeout) and, when animationId is
\* set, cancelAnimationFrame(animationId), of the run that effect started.
CancelRun(ts, raf, id) ==
  [timers |-> SelectSeq(ts, LAMBDA t : ~(t.kind = "animStart" /\ t.el = id)),
   raf    |-> raf \ {id}]

\* A run whose start timeout or whose frame callback is pending.
HasCallback(ts, raf, id) ==
  \/ id \in raf
  \/ \E i \in 1 .. Len(ts) : ts[i].kind = "animStart" /\ ts[i].el = id

\* The closures that a pending callback still refers to.
Live(closures, ts, raf) ==
  [id \in {i \in DOMAIN closures : HasCallback(ts, raf, i)} |-> closures[id]]

\* The long duration for a run that starts at 0 and the short one otherwise.
DurationForInitialLoad(from, to) == IF from = 0 THEN DURATION_INITIAL ELSE DURATION_INCREMENT

\* const duration = targetProgress > progress ? 1500 : 3500
DurationFor(from, to) == IF to > from THEN DURATION_INCREMENT ELSE DURATION_INITIAL

\* The start condition without the animationStarted guard.
MayStartAnimationIgnoringStarted(visible, target, started) ==
  visible /\ target > 0

\* The guards of the progress effect (lines 687-700).
MayStartAnimation(visible, target, started) ==
  visible /\ target > 0 /\ ~started

\* The effects of one render, in the order they are declared: the fetch
\* effect (dependency animationStarted) issues a GET that captures
\* animationStarted; the progress effect (dependencies targetProgress and
\* progressVisible) runs the previous effect's cleanup and then its body.
RunEffects ==
  /\ mounted
  /\ ~EffectsFlushed
  /\ rendered' = [target |-> targetProgress, visible |-> progressVisible,
                  started |-> animationStarted]
  /\ fetches' = IF FetchDepsChanged
                  THEN [fetches EXCEPT ![animationStarted] = @ + 1]
                  ELSE fetches
  /\ IF AnimDepsChanged
       THEN LET cleaned == IF cleanupRun = 0
                             THEN [timers |-> timers, raf |-> rafPending]
                             ELSE CancelRun(timers, rafPending, cleanupRun)
                id == runsStarted + 1
                closure == [from |-> progress, to |-> targetProgress,
                            duration |-> DurationFor(progress, targetProgress),
                            lastTime |-> 0, frameCount |-> 0]
            IN  IF MayStartAnimation(progressVisible, targetProgress, animationStarted)
                  THEN /\ animationStarted' = TRUE
                       /\ runsStarted' = id
                       /\ timers' = InsertTimer(cleaned.timers,
                            [kind |-> "animStart", el |-> id,
                             rem |-> Ticks(ANIMATION_START_DELAY)])
                       /\ rafPending' = cleaned.raf
                       /\ runs' = Live(runs, cleaned.timers, cleaned.raf) @@ (id :> closure)
                       /\ cleanupRun' = id
                  ELSE /\ timers' = cleaned.timers
                       /\ rafPending' = cleaned.raf
                       /\ runs' = Live(runs, cleaned.timers, cleaned.raf)
                       /\ cleanupRun' = 0
                       /\ UNCHANGED <<animationStarted, runsStarted>>
       ELSE UNCHANGED <<animationStarted, runsStarted, runs, timers, rafPending,
                        cleanupRun>>
  /\ lastEntry' = NoEntry
  /\ UNCHANGED <<libVars, envVars, mountVars, revealedElements, revealedClass, animationQueue,
                 revealLog, scrollVars, progressVisible, progress, targetProgress,
                 count, goal, formVars>>

\* The 200ms start timeout of a run: animationId = requestAnimationFrame(animate)
AnimationStartTimeout ==
  /\ timers # <<>>
  /\ timers[1].kind = "animStart" /\ timers[1].rem = 0
  /\ rafPending' = rafPending \cup {timers[1].el}
  /\ timers' = Tail(timers)
  /\ lastEntry' = NoEntry
  /\ UNCHANGED <<libVars, envVars, mountVars, revealedElements, revealedClass, animationQueue,
                 revealLog, scrollVars, progressVisible, dataVars, formVars,
                 rendered, fetches, runsStarted, runs, cleanupRun>>

\* Math.min(elapsed / duration, 1), in thousandths.
ProgressRatio(elapsed, duration) == (Min(elapsed, duration) * 1000) \div duration

Times(x, y) == (x * y) \div 1000

Pow5(x) == Times(Times(Times(Times(x, x), x), x), x)

\* easeOutQuint(t) = 1 - (1 - t)^5, in thousandths (every product is
\* rounded down to a thousandth).
easeOutQuint(t) == 1000 - Pow5(1000 - t)

Abs(x) == IF x < 0 THEN 0 - x ELSE x

RECURSIVE BitLength(_)
BitLength(a) == IF a = 0 THEN 0 ELSE 1 + BitLength(a \div 2)

RECURSIVE Pow2(_)
Pow2(n) == IF n = 0 THEN 1 ELSE 2 * Pow2(n - 1)

\* The spacing of the floating-point numbers around a: numbers keep
\* SignificandBits significant bits.
Ulp(a) ==
  IF BitLength(a) > SignificandBits THEN Pow2(BitLength(a) - SignificandBits) ELSE 1

\* The result of a floating-point operation: the exact value rounded to
\* the nearest representable number, a tie to the even significand.
Fl(x) ==
  LET a == Abs(x)
      u == Ulp(a)
      q == a \div u
      rest == a % u
      m == IF 2 * rest < u THEN q
           ELSE IF 2 * rest > u THEN q + 1
           ELSE IF q % 2 = 0 THEN q ELSE q + 1
  IN  IF x < 0 THEN 0 - m * u ELSE m * u

\* easedProgress * (targetProgress - startProgress), each operation
\* rounded.
EasedDelta(r, progressRatio) ==
  LET delta == Fl(r.to - r.from)
      product == (easeOutQuint(progressRatio) * Abs(delta)) \div 1000
  IN  IF delta < 0 THEN 0 - Fl(product) ELSE Fl(product)

\* startProgress + easedProgress * (targetProgress - startProgress)
CurrentPercentage(r, progressRatio) == Fl(r.from + EasedDelta(r, progressRatio))

\* Values of currentTime - startTime a frame callback may see, in ms.  The
\* display's frame clock is an input: a callback's time is no earlier
\* than the time of the callback before it and than the start timeout.
FrameTimes == {200, 700, 1500, 2500, 3500}

\* One call of animate(currentTime) of run id.  frameCount is kept modulo
\* the update interval, the only way the code reads it.
AnimationFrame(id, elapsed) ==
  /\ EffectsFlushed
  /\ id \in rafPending
  /\ elapsed >= runs[id].lastTime
  /\ elapsed >= ANIMATION_START_DELAY
  /\ LET r == runs[id]
         progressRatio == ProgressRatio(elapsed, r.duration)
         writes == r.frameCount % FRAME_UPDATE_INTERVAL = 0 \/ progressRatio >= 1000
     IN  /\ progress' = IF writes THEN CurrentPercentage(r, progressRatio) ELSE progress
         /\ rafPending' = IF progressRatio < 1000 THEN rafPending ELSE rafPending \ {id}
         /\ runs' = Live([runs EXCEPT ![id].frameCount = (@ + 1) % FRAME_UPDATE_INTERVAL,
                                      ![id].lastTime = elapsed],
                         timers, rafPending')
  /\ lastEntry' = NoEntry
  /\ UNCHANGED <<libVars, envVars, mountVars, revealVars, scrollVars, progressVisible,
                 targetProgress, count, goal, animationStarted, formVars,
                 rendered, fetches, runsStarted, cleanupRun>>

AnimationFrameCallback ==
  \E id \in DOMAIN runs, elapsed \in FrameTimes : AnimationFrame(id, elapsed)

(* ------------------------------ unmount ------------------------------- *)

\* The page unmounts: React runs the cleanup of every effect.  The reveal
\* effect's cleanup disconnects the three observers (lines 670-676) and
\* the progress effect's cleanup cancels the run it started (lines
\* 756-762).  No cleanup clears the registration timeout, a reveal timeout
\* or the progressVisible timeout.  React runs the cleanups when it removes
\* the page from the document, and also when it unmounts and remounts the
\* component on nodes it keeps (the development double mount, a refresh of
\* the module): what the document holds afterwards is not the page's
\* choice.  Only the registration callback reads the document.
RegistrationPending == \E i \in 1 .. Len(timers) : timers[i].kind = "register"

Unmount ==
  /\ mounted
  /\ EffectsFlushed
  /\ mounted' = FALSE
  /\ inDocument' \in (IF RegistrationPending THEN BOOLEAN ELSE {FALSE})
  /\ observedBy' = [el \in Elements |-> "none"]
  /\ LET cleaned == IF cleanupRun = 0
                      THEN [timers |-> timers, raf |-> rafPending]
                      ELSE CancelRun(timers, rafPending, cleanupRun)
     IN  /\ timers' = cleaned.timers
         /\ rafPending' = cleaned.raf
         /\ runs' = Live(runs, cleaned.timers, cleaned.raf)
  /\ cleanupRun' = 0
  /\ lastEntry' = NoEntry
  /\ UNCHANGED <<libVars, envVars, isCurrentlyMobile, cardsConverted, revealOrder, document,
                 revealedElements, revealedClass, animationQueue, revealLog,
                 scrollVars, progressVisible, dataVars, formVars, rendered,
                 fetches, runsStarted>>

(* --------------------------- progress data ---------------------------- *)

\* React drops the state updates of a component that has unmounted and
\* runs none of its effects: an answer that arrives after the unmount
\* changes nothing, and the steps below are taken while mounted.

\* p percent in the model's unit.  The unit is a power of two, so that 0,
\* 80 and 100 percent are representable exactly, as they are in the
\* program's arithmetic.
Percent(p) == p * 128

\* (count / goal) * 100, rounded as the floating-point division rounds it.
PercentOf(c, g) == Fl((c * Percent(100)) \div g)

\* Math.max(0, Math.min(100, x))
Clamp(x) == IF x < 0 THEN 0 ELSE IF x > Percent(100) THEN Percent(100) ELSE x

\* getProgress() of the signup data source.
ServerProgress(c) ==
  [count |-> c, goal |-> INITIAL_GOAL, percentage |-> Clamp(PercentOf(c, INITIAL_GOAL))]

\* Signup counts the data source reports to a GET and to an accepted POST.
FetchCounts == {0, 99, 6000}
SubmitCounts == {99, 6000}

\* data.percentage || (data.count / data.goal) * 100
CalculatedProgress(data) ==
  IF data.percentage # 0 THEN data.percentage ELSE PercentOf(data.count, data.goal)

\* A GET answers with numeric count and goal.
FetchResponse(captured, data) ==
  /\ mounted
  /\ EffectsFlushed
  /\ fetches[captured] > 0
  /\ fetches' = [fetches EXCEPT ![captured] = @ - 1]
  /\ goal' = data.goal
  /\ count' = data.count
  /\ targetProgress' = IF ~captured THEN CalculatedProgress(data) ELSE targetProgress
  /\ lastEntry' = NoEntry
  /\ UNCHANGED <<libVars, envVars, mountVars, revealVars, scrollVars, progressVisible, progress,
                 animationStarted, formVars, rendered, runsStarted, runs, cleanupRun, rafPending>>

FetchAnswered ==
  \E captured \in BOOLEAN, c \in FetchCounts : FetchResponse(captured, ServerProgress(c))

\* The answer of a data source that reports count and goal and leaves the
\* percentage to the page (data.percentage is absent or 0).
CountAndGoal(c) == [count |-> c, goal |-> INITIAL_GOAL, percentage |-> 0]

FetchAnsweredWithoutPercentage ==
  \E captured \in BOOLEAN, c \in FetchCounts : FetchResponse(captured, CountAndGoal(c))

\* A GET answers without numeric count and goal.
FetchMalformed ==
  /\ EffectsFlushed
  /\ \E captured \in BOOLEAN :
       /\ fetches[captured] > 0
       /\ fetches' = [fetches EXCEPT ![captured] = @ - 1]
  /\ lastEntry' = NoEntry
  /\ UNCHANGED <<libVars, envVars, mountVars, revealVars, scrollVars, progressVisible, dataVars,
                 formVars, rendered, runsStarted, runs, cleanupRun, rafPending>>

\* fetch or response.json() throws: the catch block.
FetchFails ==
  /\ mounted
  /\ EffectsFlushed
  /\ \E captured \in BOOLEAN :
       /\ fetches[captured] > 0
       /\ fetches' = [fetches EXCEPT ![captured] = @ - 1]
  /\ count' = FALLBACK_COUNT
  /\ targetProgress' = Percent(FALLBACK_TARGET)
  /\ lastEntry' = NoEntry
  /\ UNCHANGED <<libVars, envVars, mountVars, revealVars, scrollVars, progressVisible, progress,
                 goal, animationStarted, formVars, rendered, runsStarted, runs, cleanupRun, rafPending>>

(* ------------------------------ the form ------------------------------ *)

\* What the email field can hold when the button is clicked: nothing, text
\* without a dot after the @, or an address, with or without blanks around.
TypedEmails ==
  {NoEmail, [text |-> "a@x", upper |-> FALSE, padded |-> FALSE]}
    \cup {e \in RawEmails : e.text = "a@x.io" /\ ~e.upper}

\* /^[^\s@]+@[^\s@]+\.[^\s@]+$/.test(email.trim())
isValidEmail(email) == trim(email).text \in {"a@x.io", "b@x.io"}

\* handleEmailSubmit without the test of isSubmitting.
handleEmailSubmitWhileSubmitting(email) ==
  /\ mounted
  /\ EffectsFlushed
  /\ IF ~isValidEmail(email)
       THEN UNCHANGED vars
       ELSE /\ isSubmitting' = TRUE
            /\ posts' = Append(posts, email)
            /\ submits' = submits + 1
            /\ lastEntry' = NoEntry
            /\ UNCHANGED <<libVars, envVars, mountVars, revealVars, scrollVars,
                           progressVisible, dataVars, animVars>>

\* handleEmailSubmit up to its await: it returns at once when the email is
\* not valid or a submission is under way, else it sets isSubmitting and
\* sends the POST with the email.
handleEmailSubmit(email) ==
  /\ mounted
  /\ EffectsFlushed
  /\ IF ~isValidEmail(email) \/ isSubmitting
       THEN UNCHANGED vars
       ELSE /\ isSubmitting' = TRUE
            /\ posts' = Append(posts, email)
            /\ submits' = submits + 1
            /\ lastEntry' = NoEntry
            /\ UNCHANGED <<libVars, envVars, mountVars, revealVars, scrollVars,
                           progressVisible, dataVars, animVars>>

\* A click on the button, with whatever the field holds.
SubmitStart ==
  /\ submits < MaxSubmits
  /\ \E email \in TypedEmails : handleEmailSubmit(email)

\* The POST answers with data.id and numeric count and goal.
SubmitAccepted(data) ==
  /\ mounted
  /\ EffectsFlushed
  /\ posts # <<>>
  /\ count' = data.count
  /\ animationStarted' = FALSE
  /\ targetProgress' = Clamp(PercentOf(data.count, data.goal))
  /\ progressVisible' = TRUE
  /\ isSubmitting' = FALSE
  /\ posts' = Tail(posts)
  /\ lastEntry' = NoEntry
  /\ UNCHANGED <<libVars, envVars, mountVars, revealVars, scrollVars, progress, goal, submits,
                 animVars>>

SubmitAnsweredWithId == \E c \in SubmitCounts : SubmitAccepted(ServerProgress(c))

\* Every other outcome of the POST, with setProgressVisible(true) moved out
\* of the success branch.
SubmitAnsweredOtherwiseShowingBar ==
  /\ EffectsFlushed
  /\ posts # <<>>
  /\ isSubmitting' = FALSE
  /\ posts' = Tail(posts)
  /\ progressVisible' = TRUE
  /\ lastEntry' = NoEntry
  /\ UNCHANGED <<libVars, envVars, mountVars, revealVars, scrollVars, dataVars,
                 submits, animVars>>

\* Every other outcome of the POST, with setAnimationStarted(false) moved
\* out of the success branch.
SubmitAnsweredOtherwiseResettingStarted ==
  /\ EffectsFlushed
  /\ posts # <<>>
  /\ isSubmitting' = FALSE
  /\ posts' = Tail(posts)
  /\ animationStarted' = FALSE
  /\ lastEntry' = NoEntry
  /\ UNCHANGED <<libVars, envVars, mountVars, revealVars, scrollVars, progressVisible,
                 progress, targetProgress, count, goal, submits, animVars>>

\* Every other outcome of the POST (no data.id, 409, an error, a throw).
SubmitAnsweredOtherwise ==
  /\ mounted
  /\ EffectsFlushed
  /\ posts # <<>>
  /\ isSubmitting' = FALSE
  /\ posts' = Tail(posts)
  /\ lastEntry' = NoEntry
  /\ UNCHANGED <<libVars, envVars, mountVars, revealVars, scrollVars, progressVisible, dataVars,
                 submits, animVars>>

\* if (data.id) ... else ...: the page takes a POST answer for a success
\* only when its body carries an id.
handleSubmitAnswer(data) ==
  IF "id" \in DOMAIN data THEN SubmitAccepted(data) ELSE SubmitAnsweredOtherwise

\* The signup handler recorded the signup and answers 200 with the body
\* {count, goal, percentage, message}.
SubmitAnsweredRecorded ==
  \E c \in SubmitCounts : handleSubmitAnswer(ServerProgress(c))

(* --------------------------- specifications --------------------------- *)

\* The reveal system from page load on, on a viewport that is not resized
\* across the breakpoint.  No progress data arrives and no signup is made:
\* the reveal system reads neither.
Next ==
  \/ Scroll
  \/ Tick
  \/ RegistrationTimeout
  \/ StandardObserverEntry
  \/ MobileTitleObserverEntry
  \/ ImmediateRevealTimeout
  \/ QueuedRevealTimeout
  \/ ProgressVisibleTimeout
  \/ RunEffects

Spec == Init /\ [][Next]_vars

\* The progress animator, from the moment every element before the
\* progress section has been revealed on a desktop viewport (a state Spec
\* reaches).  The viewport is no longer scrolled and only the progress
\* section's entries are delivered.
AnimInit ==
  /\ innerWidth = 1280
  /\ scrollY = 60
  /\ scrollMove = "down"
  /\ now = Ticks(MIN_TIME_BEFORE_TITLE_REVEAL)
  /\ isCurrentlyMobile = FALSE
  /\ cardsConverted = FALSE
  /\ revealOrder = [i \in 1 .. NumElements |-> i]
  /\ observedBy = [el \in Elements |-> ObserverFor(DesktopPage[el].kind, 1280, FALSE)]
  /\ mounted = TRUE
  /\ inDocument = TRUE
  /\ document = DocumentNodes
  /\ revealedElements = 1 .. (ProgressSection - 1)
  /\ revealedClass = 1 .. (ProgressSection - 1)
  /\ animationQueue = <<>>
  /\ timers = <<>>
  /\ lastScrollY = 0
  /\ scrollDirection = "down"
  /\ scrollStarted = FALSE
  /\ revealLog = [i \in 1 .. (ProgressSection - 1) |-> i]
  /\ lastEntry = NoEntry
  /\ ReactInit
  /\ LibInit

ProgressSectionEntry == \E b \in BOOLEAN : StandardEntry(ProgressSection, b)

NextAnim ==
  \/ Tick
  \/ ProgressSectionEntry
  \/ ImmediateRevealTimeout
  \/ ProgressVisibleTimeout
  \/ RunEffects
  \/ AnimationStartTimeout
  \/ AnimationFrameCallback
  \/ FetchAnswered
  \/ FetchMalformed
  \/ FetchFails
  \/ SubmitStart
  \/ SubmitAnsweredWithId
  \/ SubmitAnsweredRecorded
  \/ SubmitAnsweredOtherwise

SpecAnim == AnimInit /\ [][NextAnim]_vars

\* Clicks on the signup button that the form's specification takes.
MaxFormSubmits == 3

\* A click on the button, one of several.
FormSubmit ==
  /\ submits < MaxFormSubmits
  /\ \E email \in TypedEmails : handleEmailSubmit(email)

\* The signup form used again and again while the progress bar animates;
\* the GET of the mount is not answered in the meantime.
NextForm ==
  \/ Tick
  \/ ProgressSectionEntry
  \/ ImmediateRevealTimeout
  \/ ProgressVisibleTimeout
  \/ RunEffects
  \/ AnimationStartTimeout
  \/ AnimationFrameCallback
  \/ FormSubmit
  \/ SubmitAnsweredWithId
  \/ SubmitAnsweredRecorded
  \/ SubmitAnsweredOtherwise

SpecForm == AnimInit /\ [][NextForm]_vars

\* The progress animation fed by any data source that answers with numeric
\* count and goal, whether or not it reports a percentage.
NextAnyAnswer == NextAnim \/ FetchAnsweredWithoutPercentage

SpecAnyAnswer == AnimInit /\ [][NextAnyAnswer]_vars

\* The window is resized between the mount, when the observers are
\* created, and the deferred registration of the elements.
ResizeBeforeRegistration ==
  /\ revealOrder = <<>>
  /\ Resize

\* The reveal system on a viewport that is resized before the elements are
\* registered.
NextResize == Next \/ ResizeBeforeRegistration

SpecResize == Init /\ [][NextResize]_vars

\* The reveal system on a page that may unmount at any moment.
NextUnmount == Next \/ Unmount

SpecUnmount == Init /\ [][NextUnmount]_vars

\* The progress animation on a page that may unmount at any moment.
NextAnimUnmount == NextAnim \/ Unmount

SpecAnimUnmount == AnimInit /\ [][NextAnimUnmount]_vars

\* The page loaded at desktop width, where the headline is observed by the
\* standard observer and no mobile headline observer exists.
InitDesktop == Init /\ ~IsMobileWidth(innerWidth)

\* What the event loop does on its own: run the effects of a render, run
\* the callback that is due, let time pass.  At most one of them is
\* enabled in a state.
EventLoop ==
  \/ RunEffects
  \/ RegistrationTimeout
  \/ ImmediateRevealTimeout
  \/ QueuedRevealTimeout
  \/ ProgressVisibleTimeout
  \/ Tick

NextDesktop == Scroll \/ StandardObserverEntry \/ EventLoop

\* The desktop page with the scheduling the event loop gives: a callback
\* that is due runs, and time passes when none is due.
SpecDesktopFair == InitDesktop /\ [][NextDesktop]_vars /\ WF_vars(EventLoop)

\* The build of the reveal order on its own.  The callback reads whatever
\* the document holds: the page's nodes, each with or without data-reveal.
Documents ==
  {[i \in 1 .. Len(DocumentNodes) |-> [DocumentNodes[i] EXCEPT !.reveal = (i \in marked)]] :
     marked \in SUBSET (1 .. Len(DocumentNodes))}

BuildInit ==
  /\ innerWidth \in Widths
  /\ scrollY = 0
  /\ scrollMove = "none"
  /\ now = 0
  /\ isCurrentlyMobile = IsMobileWidth(innerWidth)
  /\ cardsConverted = FALSE
  /\ revealOrder = <<>>
  /\ observedBy = [el \in Elements |-> "none"]
  /\ mounted = TRUE
  /\ inDocument = TRUE
  /\ document \in Documents
  /\ revealedElements = {}
  /\ revealedClass = {}
  /\ animationQueue = <<>>
  /\ timers = <<>>
  /\ lastScrollY = 0
  /\ scrollDirection = "down"
  /\ scrollStarted = FALSE
  /\ revealLog = <<>>
  /\ lastEntry = NoEntry
  /\ ReactInit
  /\ LibInit

\* A run of the effect builds its reveal order (lines 553-600 of the
\* registration callback): the conversion at a mobile width, then the
\* query and the pushes.  Here revealOrder holds the nodes by their
\* position in the document.
Build ==
  /\ document' = ConvertedAt(document, innerWidth)
  /\ revealOrder' = BuildRevealOrder(revealOrder, document')
  /\ cardsConverted' = IsMobileWidth(innerWidth)
  /\ lastEntry' = NoEntry
  /\ UNCHANGED <<libVars, envVars, isCurrentlyMobile, observedBy, mounted, inDocument,
                 revealVars, scrollVars, reactVars>>

SpecBuild == BuildInit /\ [][Build]_vars

\* The server on its own, in every environment, with NumRequests POST
\* requests and any number of GET requests.
ServerInit ==
  /\ PageInit
  /\ innerWidth = 1280
  /\ NoToast
  /\ processEnv \in Environments
  /\ ServerIdle

NextServer ==
  \/ Get
  \/ PostReceived
  \/ AdapterInitDone
  \/ FileReadDone
  \/ FileWriteDone
  \/ KvAddDone
  \/ PgInsertDone
  \/ ProgressRead

SpecServer == ServerInit /\ [][NextServer]_vars

\* A toast from showToast on: the frame callback and the timers run as
\* the browser's event loop runs them, the user moves the mouse over the
\* toast and away and clicks its close button.
ToastInit == Init /\ innerWidth = 1280

ToastEventLoop ==
  \/ ToastFrame
  \/ HideTimeout
  \/ SafetyTimeout
  \/ RemoveTimeout
  \/ ToastTimePasses

NextToast ==
  \/ ShowToast
  \/ MouseEnter
  \/ MouseLeave
  \/ CloseClick
  \/ ToastFrame
  \/ HideTimeout
  \/ SafetyTimeout
  \/ RemoveTimeout
  \/ ToastTimePasses

SpecToast == ToastInit /\ [][NextToast]_vars /\ WF_vars(ToastEventLoop)

\* The page at either viewport width with the same scheduling.
SpecFair == Init /\ [][Next]_vars /\ WF_vars(EventLoop)

(* ---------------------------- reveal states --------------------------- *)

\* The states of the data model, read off the page's own bookkeeping.
Revealed(el) == el \in revealedClass

HasRevealTimer(el) ==
  \E i \in 1 .. Len(timers) :
    timers[i].el = el /\ timers[i].kind \in {"immediate", "queued"}

Unlocking(el) == ~Revealed(el) /\ HasRevealTimer(el)

Pending(el) == el \notin revealedElements /\ ~InQueue(animationQueue, el) /\ ~Revealed(el)

IsFirst(el) == revealOrder # <<>> /\ revealOrder[1] = el

Predecessor(el) == revealOrder[IndexOf(revealOrder, el) - 1]

PredecessorRevealed(el) == IsFirst(el) \/ Revealed(Predecessor(el))

(* ------------------------------- claims ------------------------------- *)

\* C1: no element is marked 'revealed' (styles and marker applied) while
\* the element immediately before it in the reveal order is not yet
\* marked 'revealed'.
C1_RevealedInOrder ==
  [][\A el \in Elements :
       (Revealed(el)' /\ ~Revealed(el)) => PredecessorRevealed(el)]_vars

\* C2: while the predecessor of an element has not completed its reveal,
\* no reveal timer runs for the element (it is Pending or Queued).
C2_NoTimerBehindUnrevealedPredecessor ==
  \A el \in Elements : HasRevealTimer(el) => PredecessorRevealed(el)

\* C4: whatever the arrival order of the visibility events, the sequence
\* in which the elements become Revealed is the ascending reveal order.
C4_RevealSequenceIsRevealOrder ==
  \A i \in 1 .. Len(revealLog) : revealLog[i] = revealOrder[i]

\* C5: once the progress section is Revealed and every callback that was
\* pending has run, progressVisible is true.
C5_ProgressRevealSetsVisible ==
  (Revealed(ProgressSection) /\ timers = <<>> /\ EffectsFlushed) => progressVisible

\* C3: an entry for an element that is already scheduled, queued or
\* Revealed changes nothing of the reveal bookkeeping: no second timer,
\* no second queue record, no second reveal; and no element is revealed
\* twice or has two reveal timers.
C3_NoRetrigger ==
  /\ [](\A i, j \in 1 .. Len(revealLog) : revealLog[i] = revealLog[j] => i = j)
  /\ [](\A i, j \in 1 .. Len(timers) :
          (/\ timers[i].kind \in {"immediate", "queued"}
           /\ timers[j].kind \in {"immediate", "queued"}
           /\ timers[i].el = timers[j].el) => i = j)
  /\ [][\A el \in Elements, b \in BOOLEAN :
          ((StandardEntry(el, b) \/ MobileTitleEntry(el, b)) /\ ~Pending(el))
            => UNCHANGED <<revealVars, progressVisible>>]_vars

\* An intersecting entry has just been processed for an element whose
\* reveal timer is running.
C3_EntryWhileScheduled ==
  /\ lastEntry.outcome = "noTrigger"
  /\ lastEntry.el \in revealedElements
  /\ Unlocking(lastEntry.el)

C7_DesktopTitleReveal ==
  /\ [][\A el \in Elements :
          (/\ StandardEntry(el, TRUE)
           /\ KindOf(el) = "title"
           /\ ~IsMobileWidth(innerWidth)
           /\ Pending(el)
           /\ scrollY > 0
           /\ now >= Ticks(MIN_TIME_BEFORE_TITLE_REVEAL))
            => (/\ ~Pending(el)'
                /\ \E i \in 1 .. Len(timers') :
                     timers'[i] = [kind |-> "immediate", el |-> el,
                                   rem |-> Ticks(DESKTOP_TITLE_DELAY)])]_vars
  /\ \A el \in Elements :
       (KindOf(el) = "title" /\ Unlocking(el)) ~> Revealed(el)

\* The desktop headline is Revealed after an entry the gate let through.
C7_DesktopTitleRevealed ==
  /\ ~IsMobileWidth(innerWidth)
  /\ ~isCurrentlyMobile
  /\ scrollY > 0
  /\ now >= Ticks(MIN_TIME_BEFORE_TITLE_REVEAL)
  /\ \E el \in Elements : KindOf(el) = "title" /\ Revealed(el)

\* C8: an entry that the mobile headline observer delivers for the Pending
\* headline moves it out of Pending exactly when the headline intersects,
\* the scroll offset exceeds 50, the user has started scrolling and the
\* direction of the last movement is downward.
C8_MobileTitleCondition ==
  [][\A el \in Elements, b \in BOOLEAN :
       (MobileTitleEntry(el, b) /\ Pending(el))
         => (~Pending(el)' <=>
               (/\ b
                /\ scrollY > MOBILE_TITLE_MIN_SCROLL
                /\ scrollStarted'
                /\ scrollDirection' = "down"))]_vars

\* The mobile headline has just been dropped, intersecting and beyond
\* offset 50, because the last movement was upward.
C8_BlockedWhileScrollingUp ==
  /\ lastEntry.outcome = "blocked"
  /\ observedBy[lastEntry.el] = "mobileTitle"
  /\ scrollY > MOBILE_TITLE_MIN_SCROLL
  /\ scrollStarted
  /\ scrollDirection = "up"
  /\ Pending(lastEntry.el)

\* C9: an animation run starts only in a state where progressVisible is
\* true, targetProgress is positive and animationStarted is false.
C9_RunStartCondition ==
  [][runsStarted' # runsStarted
       => (/\ progressVisible /\ targetProgress > 0 /\ ~animationStarted
           /\ animationStarted'
           /\ runsStarted' = runsStarted + 1)]_vars

\* targetProgress changed while animationStarted was true and the effects
\* of that render have run: one run started in all, nothing of it is
\* pending, and progress is not at the target.
C9_TargetChangedWhileStarted ==
  /\ runsStarted = 1
  /\ animationStarted
  /\ progressVisible
  /\ targetProgress > 0
  /\ EffectsFlushed
  /\ ~HasCallback(timers, rafPending, 1)
  /\ progress # targetProgress

\* C10: every pending start timeout and every pending frame request
\* belongs to the run started last, so that at most one run animates.
C10_OnlyLatestRunPending ==
  /\ \A id \in rafPending : id = runsStarted
  /\ \A i \in 1 .. Len(timers) :
       timers[i].kind = "animStart" => timers[i].el = runsStarted
  /\ DOMAIN runs \subseteq {runsStarted}

\* A second run animates that started from a value the first run wrote
\* in flight.
C10_SecondRunSupersededFirst ==
  /\ runsStarted = 2
  /\ 2 \in rafPending
  /\ runs[2].from > 0
  /\ runs[2].from < runs[2].to

\* A call of animate for run id at the given elapsed time that is the
\* run's last: progressRatio has reached 1.
FinalFrame(id, elapsed) ==
  /\ AnimationFrame(id, elapsed)
  /\ ProgressRatio(elapsed, runs[id].duration) >= 1000

\* C11: the last frame of a run writes exactly the run's target to
\* progress.
C11_FinalFrameWritesTarget ==
  [][\A id \in DOMAIN runs, elapsed \in FrameTimes :
       FinalFrame(id, elapsed) => progress' = runs[id].to]_vars

\* C12: a GET that throws or answers without numeric count and goal
\* changes none of count, goal, targetProgress and progress.
C12_FailedFetchIsNoUpdate ==
  [][(FetchFails \/ FetchMalformed)
       => UNCHANGED <<count, goal, targetProgress, progress>>]_vars

\* C13: when targetProgress or progressVisible changes while
\* animationStarted is true, the effects of that render leave every
\* pending callback of the run in flight in place.
C13_RestartWhileStartedIsNoOp ==
  [][(RunEffects /\ animationStarted /\ AnimDepsChanged)
       => (rafPending' = rafPending /\ timers' = timers)]_vars

\* C14: while animationStarted is true, the answer to a GET, whenever
\* the GET was issued, leaves targetProgress unchanged.
C14_FetchKeepsTargetOnceStarted ==
  [][(FetchAnswered /\ animationStarted) => targetProgress' = targetProgress]_vars

\* C15: after the page has unmounted no element changes its reveal
\* state, no 'revealed' marker is applied and progressVisible is not set.
C15_NoRevealAfterUnmount ==
  [][~mounted => UNCHANGED <<revealedElements, revealedClass, animationQueue,
                              revealLog, progressVisible>>]_vars

\* An element waits in animationQueue for its predecessor.
Queued(el) ==
  \E i \in 1 .. Len(animationQueue) :
    animationQueue[i].el = el /\ ~animationQueue[i].canReveal

\* C16: a Queued element is force-revealed after a bounded wait: while an
\* element is Queued, a timeout is pending that will end its wait.
C16_QueuedElementHasPendingTimeout ==
  (\E el \in Elements : Queued(el)) => timers # <<>>

\* C17: when the signup handler answers 200 with numeric count and goal,
\* the page sets count to the returned count, targetProgress to
\* count / goal * 100 clamped to [0, 100], and animationStarted to false.
C17_RecordedSignupUpdatesProgress ==
  [][\A c \in SubmitCounts :
       handleSubmitAnswer(ServerProgress(c))
         => (/\ count' = c
             /\ targetProgress' = Clamp(PercentOf(c, INITIAL_GOAL))
             /\ ~animationStarted')]_vars

\* The duration the rule gives a run.
RuleDuration(r) == IF r.to > r.from THEN 1500 ELSE 3500

FrameWrites(id, elapsed) ==
  \/ runs[id].frameCount % FRAME_UPDATE_INTERVAL = 0
  \/ ProgressRatio(elapsed, runs[id].duration) >= 1000

\* C19: within one run with to > from, every value the run writes lies
\* between from and to, and is above the value the run wrote before
\* whenever the frame time has advanced.
C19_WrittenValuesIncreaseWithinBounds ==
  [][\A id \in DOMAIN runs, elapsed \in FrameTimes :
       (/\ AnimationFrame(id, elapsed)
        /\ runs[id].to > runs[id].from
        /\ FrameWrites(id, elapsed))
         => /\ progress' >= runs[id].from
            /\ progress' <= runs[id].to
            /\ (runs[id].lastTime > 0 /\ elapsed > runs[id].lastTime)
                 => progress' > progress]_vars

\* A step promotes a Queued element: it stays in animationQueue with
\* canReveal set and its delay timer started.
Promoted(el) == Queued(el) /\ Unlocking(el)'

\* A step makes an element Revealed.
BecomesRevealed(el) == ~Revealed(el) /\ Revealed(el)'

\* C20: a Queued element is promoted to Unlocking in the step in which its
\* predecessor becomes Revealed, and in no other step.
C20_PromotedExactlyWhenPredecessorRevealed ==
  [][\A el \in Elements :
       (Queued(el) /\ IndexOf(revealOrder, el) > 1)
         => (Promoted(el) <=> BecomesRevealed(Predecessor(el)))]_vars

\* C21: at any time at most one element is Unlocking, that is, unblocked
\* with its reveal delay timer still pending.
C21_AtMostOneUnlocking ==
  Cardinality({el \in Elements : Unlocking(el)}) <= 1

C23_StartedSetByRunResetBySignup ==
  /\ [][(~animationStarted /\ animationStarted')
          => (RunEffects /\ runsStarted' = runsStarted + 1)]_vars
  /\ [][(animationStarted /\ ~animationStarted') => SubmitAnsweredWithId]_vars
  /\ [][(\/ FetchAnswered \/ FetchMalformed \/ FetchFails
         \/ ImmediateRevealTimeout \/ ProgressVisibleTimeout
         \/ AnimationFrameCallback)
          => animationStarted' = animationStarted]_vars

\* A signup has reset animationStarted after a run that wrote to the bar.
C23_StartedResetAfterRun ==
  /\ ~animationStarted
  /\ runsStarted > 0
  /\ progress > 0

\* Nothing is pending that could still write the bar or change its target:
\* every render's effects have run, no run has a start timeout or a frame
\* callback pending, no GET and no POST is in flight.
Quiescent ==
  /\ EffectsFlushed
  /\ rafPending = {}
  /\ \A i \in 1 .. Len(timers) : timers[i].kind # "animStart"
  /\ \A captured \in BOOLEAN : fetches[captured] = 0
  /\ ~isSubmitting

\* C24: when visible is true, the target is above 0 and stays unchanged,
\* the displayed percentage eventually equals the target: once all pending
\* timers, frames and answers have been handled, displayed = target.
C24_SettlesAtTarget ==
  (progressVisible /\ targetProgress > 0 /\ Quiescent) => progress = targetProgress

\* C25: on a mobile viewport, an entry of the headline's observer that is
\* delivered while the last change of the scroll position was upward leaves
\* the headline Pending.
C25_NoMobileTitleTriggerAfterUpwardScroll ==
  [][\A el \in Elements, isIntersecting \in BOOLEAN :
       (/\ MobileTitleEntry(el, isIntersecting)
        /\ scrollMove = "up"
        /\ Pending(el))
         => Pending(el)']_vars

\* The observer an element of the given kind belongs to for the device
\* class chosen at mount.
ObserverAtMount(kind) ==
  IF kind = "footer" THEN "footer"
  ELSE IF isCurrentlyMobile /\ kind = "title" THEN "mobileTitle"
  ELSE "standard"

\* C26: the device class chosen at mount decides, whatever the viewport
\* width becomes later, which observer every element is registered with and
\* which gate the headline's entries pass: on a desktop mount an entry at
\* scroll offset 0 or in the first second leaves the headline Pending, on a
\* mobile mount the headline leaves Pending only under the scroll
\* requirement.
C26_DeviceClassFixedAtMount ==
  /\ [](\A el \in 1 .. Len(revealOrder) : observedBy[el] = ObserverAtMount(KindOf(el)))
  /\ [][\A el \in Elements, isIntersecting \in BOOLEAN :
          (/\ StandardEntry(el, isIntersecting) \/ MobileTitleEntry(el, isIntersecting)
           /\ KindOf(el) = "title"
           /\ Pending(el)
           /\ ~Pending(el)')
            => IF isCurrentlyMobile
                 THEN /\ scrollY > MOBILE_TITLE_MIN_SCROLL
                      /\ scrollStarted'
                      /\ scrollDirection' = "down"
                 ELSE /\ scrollY # 0
                      /\ now >= Ticks(MIN_TIME_BEFORE_TITLE_REVEAL)]_vars

\* C27: an entry that is not intersecting changes no reveal state, whatever
\* observer delivers it and whatever state its element is in: the sets of
\* triggered and of Revealed elements, the queue and every pending timer
\* stay as they are.
C27_NotIntersectingChangesNothing ==
  [][\A el \in Elements :
       (\/ StandardEntry(el, FALSE)
        \/ MobileTitleEntry(el, FALSE)
        \/ FooterEntry(el, FALSE))
         => UNCHANGED <<revealVars, progressVisible>>]_vars

\* A not intersecting entry has just been delivered for a Queued element
\* while another element's reveal timer is pending.
C27_NotIntersectingWhileQueued ==
  /\ lastEntry.outcome = "notIntersecting"
  /\ Queued(lastEntry.el)
  /\ \E el \in Elements : Unlocking(el)

\* The time left on the reveal timer of an element that has one.
RevealTimerRem(ts, el) ==
  LET i == CHOOSE i \in 1 .. Len(ts) :
             ts[i].el = el /\ ts[i].kind \in {"immediate", "queued"}
  IN  ts[i].rem

\* C28: an element that enters Unlocking becomes Revealed no earlier than
\* its data-delay after it was unblocked, on the immediate and on the
\* queued path: its timer starts with the full data-delay, runs down only
\* as time passes, and the element is revealed only when it has run out.
\* (The page declares no sequence group, so no stagger is added.)
C28_RevealNotBeforeDelay ==
  /\ [][\A el \in Elements :
          (~HasRevealTimer(el) /\ HasRevealTimer(el)')
            => RevealTimerRem(timers', el) = Ticks(DataDelay(el))]_vars
  /\ [][\A el \in Elements :
          (HasRevealTimer(el) /\ HasRevealTimer(el)')
            => /\ RevealTimerRem(timers', el) >= RevealTimerRem(timers, el) - 1
               /\ RevealTimerRem(timers', el) <= RevealTimerRem(timers, el)
               /\ RevealTimerRem(timers', el) # RevealTimerRem(timers, el) => Tick]_vars
  /\ [][\A el \in Elements :
          BecomesRevealed(el)
            => (HasRevealTimer(el) /\ RevealTimerRem(timers, el) = 0)]_vars

\* An element unblocked from the queue is part of the way through its delay.
C28_QueuedDelayRunning ==
  \E i \in 1 .. Len(timers) :
    /\ timers[i].kind = "queued"
    /\ timers[i].rem > 0
    /\ timers[i].rem < Ticks(DataDelay(timers[i].el))

\* C29: targetProgress and progress stay within [0, 100] in every reachable
\* state, on the fetch path and on the submission path, for every count,
\* goal and percentage a data source answers with (a count above the goal
\* included).
C29_PercentagesWithinRange ==
  /\ 0 <= targetProgress /\ targetProgress <= Percent(100)
  /\ 0 <= progress /\ progress <= Percent(100)

\* C30: after the page has unmounted the progress animation writes nothing
\* more: no start timeout and no frame callback of a run is pending, and
\* progress does not change.
C30_NoAnimationAfterUnmount ==
  /\ [](~mounted => /\ rafPending = {}
                    /\ \A i \in 1 .. Len(timers) : timers[i].kind # "animStart")
  /\ [][~mounted => progress' = progress]_vars

\* The page has unmounted while its first run was part of the way to the
\* target the first GET reported.
C30_UnmountedDuringRun ==
  /\ ~mounted
  /\ submits = 0
  /\ animationStarted
  /\ count = 99 /\ targetProgress = PercentOf(99, goal)
  /\ 0 < progress /\ progress < targetProgress

\* C31: after the page has unmounted no element is registered with an
\* observer and no observer entry is processed, also when the unmount comes
\* before the registration callback has run.
C31_NothingObservedAfterUnmount ==
  /\ [](~mounted => \A el \in Elements : observedBy[el] = "none")
  /\ [][~mounted => ~(StandardObserverEntry \/ MobileTitleObserverEntry
                        \/ FooterObserverEntry)]_vars

\* C32: once every element of the reveal order has had an entry that
\* triggered it (it was scheduled or queued), every element becomes
\* Revealed, and a Queued element whose predecessor carries the revealed
\* class becomes Revealed: no wake-up is lost.
C32_EveryTriggeredElementReveals ==
  /\ (revealOrder # <<>> /\ \A el \in Elements : ~Pending(el))
       ~> (\A el \in Elements : Revealed(el))
  /\ \A el \in Elements :
       (Queued(el) /\ PredecessorRevealed(el)) ~> Revealed(el)

\* The last element was queued, its wake-up has come (its delay timer is
\* pending) and every element before it carries the revealed class.
C32_LastElementWokenUp ==
  /\ \E i \in 1 .. Len(timers) : timers[i].kind = "queued" /\ timers[i].el = NumElements
  /\ \A el \in 1 .. (NumElements - 1) : Revealed(el)

\* C33: the registration step hands every element of the page to exactly
\* one observer (an element has one entry in observedBy, so at most one),
\* whatever the viewport width was when the observers were made and
\* whatever it is when the step runs.
C33_EveryElementRegistered ==
  [][RegistrationTimeout =>
       \A el \in 1 .. Len(revealOrder') :
         observedBy'[el] \in {"standard", "mobileTitle", "footer"}]_vars

Revealable(doc) == {i \in 1 .. Len(doc) : doc[i].reveal}

\* C34: the built list holds every node that carries data-reveal (after
\* the mobile conversion: the cards, not the section) exactly once, in
\* document order, and a second build on the page the first one left
\* yields the same list and leaves the page as it is.
C34_BuildIdempotentInDocumentOrder ==
  /\ [][Build =>
          /\ {revealOrder'[k] : k \in 1 .. Len(revealOrder')} = Revealable(document')
          /\ \A k \in 1 .. (Len(revealOrder') - 1) : revealOrder'[k] < revealOrder'[k + 1]]_vars
  /\ [][(Build /\ revealOrder # <<>>) =>
          (revealOrder' = revealOrder /\ document' = document)]_vars

\* A build at a mobile width has converted the benefits section: the
\* list holds the three cards and not the section.
C34_BuiltAfterConversion ==
  /\ IsMobileWidth(innerWidth)
  /\ cardsConverted
  /\ document = ConvertBenefits(DocumentNodes)
  /\ revealOrder = <<1, 2, 3, 4, 6, 7, 8, 9>>

AllAnswered == \A r \in Requests : requests[r].pc = "done"

\* C35: of two POST requests that carry the same email once it is trimmed
\* and lower-cased, whatever the interleaving, one is recorded and
\* answered 200, the other is answered 409, and the stored count has
\* risen by one.
C35_SameEmailOneRecordedOneDuplicate ==
  \A r1, r2 \in Requests :
    (r1 < r2 /\ AllAnswered /\ requests[r1].email = requests[r2].email)
      => /\ {requests[r1].status, requests[r2].status} = {200, 409}
         /\ stored.count = 1

\* C36: on the file adapter, once all addSignup calls with pairwise
\* distinct emails have finished, the email of every call that returned
\* true is in the stored list and the stored count is the length of that
\* list.
C36_FileAdapterKeepsEveryAddedEmail ==
  (/\ storageAdapter = "file"
   /\ AllAnswered
   /\ \A r1, r2 \in Requests : r1 # r2 => requests[r1].email # requests[r2].email)
    => /\ \A r \in Requests :
            requests[r].inserted => Includes(stored.emails, requests[r].email)
       /\ stored.count = Len(stored.emails)

\* C37: every toast that is shown is closed and removed from the document
\* in the end, whatever mouseenter, mouseleave and close-button events it
\* receives, and no later than the hard safety timeout followed by the
\* removal delay.
C37_EveryToastRemoved ==
  /\ toast.inBody ~> (~toast.inBody /\ toast.closedBy # "none")
  /\ [](toast.inBody => toast.age <= DURATION + SAFETY_EXTRA + REMOVE_DELAY)

\* The pointer went over the toast and stayed: the hard safety timeout
\* closed the toast, which was removed 260 ms later.
C37_RemovedBySafetyTimeout ==
  /\ toast.shown /\ ~toast.inBody
  /\ toast.events > 0
  /\ toast.closedBy = "safety"
  /\ toast.age = DURATION + SAFETY_EXTRA + REMOVE_DELAY

\* C38: isSubmitting is true exactly while a signup POST of the page is in
\* flight; a POST is sent only when isSubmitting is false and the email is
\* valid, at most one is in flight, and isSubmitting is false again when
\* the POST is over, whatever its outcome.
C38_SubmittingExactlyWhileInFlight ==
  /\ [](isSubmitting <=> posts # <<>>)
  /\ [](Len(posts) <= 1)
  /\ [][Len(posts') > Len(posts)
         => ~isSubmitting /\ isValidEmail(posts'[Len(posts')])]_vars
  /\ [][Len(posts') < Len(posts) => ~isSubmitting']_vars

\* A second signup is in flight, sent with blanks around the address,
\* after the first one was over.
C38_SecondSubmissionInFlight ==
  /\ submits = 2
  /\ isSubmitting
  /\ Len(posts) = 1 /\ posts[1].padded

\* The order the documentation gives (Environment Variable Priority).
DocumentedAdapter(env) ==
  IF env.KV_URL /\ env.KV_REST_API_URL THEN "kv"
  ELSE IF env.DATABASE_URL THEN "postgres"
  ELSE IF ~env.production THEN "file"
  ELSE "env"

\* C39: the adapter in use is the one the documented priority names for
\* the environment, and it is created once.
C39_AdapterByDocumentedPriority ==
  /\ storageAdapter # "null" => storageAdapter = DocumentedAdapter(processEnv)
  /\ adaptersCreated <= 1

TypeOK ==
  /\ innerWidth \in Widths
  /\ scrollY \in ScrollPositions
  /\ scrollMove \in {"none", "down", "up"}
  /\ revealedClass \subseteq Elements
  /\ revealedElements \subseteq Elements
  /\ mounted \in BOOLEAN
  /\ inDocument \in BOOLEAN

====
